---- MODULE Spec2Model ----
(***************************************************************************)
(* Model of content/api/utils.py (encoder invocation, manifest resolver)   *)
(* and content/api/serializers.py (thumbnail URL, slug) of Videoflix.      *)
(*                                                                         *)
(* A path string s is the sequence of its '/'-separated components, i.e.   *)
(* s.split("/"): "/media/v1" is <<"", "media", "v1">>, "003.ts" is         *)
(* <<"003.ts">>, "" is <<"">> and "/" is <<"", "">>.                       *)
(* A node of the filesystem tree is the sequence of names leading to it    *)
(* from the root; the root is <<>>.                                        *)
(***************************************************************************)
EXTENDS Naturals, Sequences, FiniteSets

VARIABLES video, fs, last

vars == <<video, fs, last>>

(***************************************************************************)
(* Python values                                                           *)
(***************************************************************************)
\* Python's None.
None == [none |-> TRUE]

\* A Python str holding a path or URL, boxed so that it compares with None.
Str(p) == [str |-> p]

\* Settings: the root of the file storage and the URL prefix it is served at.
MEDIA_ROOT == <<"", "media">>
MEDIA_URL == <<"", "media">>

\* A file field of the record: name is the storage-relative name (<<>> when
\* no file is associated), path is the absolute path storage gives that name.
FieldFile(name) == [name |-> name, path |-> IF name = <<>> THEN <<>> ELSE MEDIA_ROOT \o name]

\* Python truthiness of None / a file field: a field without a name is falsy.
Truthy(v) == IF v = None THEN FALSE ELSE v.name # <<>>

(***************************************************************************)
(* os.path                                                                 *)
(***************************************************************************)
Front(s) == SubSeq(s, 1, Len(s) - 1)

Last(s) == s[Len(s)]

IsAbs(p) == Len(p) >= 2 /\ p[1] = ""

AllEmpty(s) == \A i \in 1..Len(s) : s[i] = ""

RECURSIVE RStripSlash(_)
\* str.rstrip('/') of a string that ends in a slash and is not all slashes.
RStripSlash(s) == IF Len(s) > 1 /\ Last(s) = "" THEN RStripSlash(Front(s)) ELSE s

\* posixpath.dirname: everything up to the last slash, trailing slashes
\* stripped unless the head consists of slashes only.
dirname(p) ==
    IF Len(p) = 1 THEN <<"">>
    ELSE LET head == Front(p) \o <<"">>
         IN IF AllEmpty(head) THEN head ELSE RStripSlash(head)

\* posixpath.join of two strings: an absolute b discards a.
join(a, b) ==
    IF IsAbs(b) THEN b
    ELSE IF Last(a) = "" THEN Front(a) \o b
    ELSE a \o b

(***************************************************************************)
(* The filesystem                                                          *)
(***************************************************************************)
Root == <<>>

Dirs == { <<"media">>, <<"media", "v1">>, <<"media", "v1", "720p">> }

Files ==
    { <<"media", "v1", "720p", "003.ts">>,
      <<"media", "v1", "720p", "index.m3u8">>,
      <<"media", "v1", "secret.ts">>,
      <<"media", "v1", "out.mp4">>,
      <<"media", "thumb.jpg">> }

Nodes == Dirs \cup Files

Parent(n) == IF n = Root THEN Root ELSE Front(n)

IsDirIn(disk, n) == n = Root \/ (n \in disk /\ n \in Dirs)

RECURSIVE Walk(_, _, _)
\* Kernel path resolution from node cur along comps (no symbolic links):
\* every component is looked up in a directory that exists.
Walk(disk, cur, comps) ==
    IF comps = <<>> THEN [ok |-> TRUE, node |-> cur]
    ELSE IF ~IsDirIn(disk, cur) THEN [ok |-> FALSE, node |-> Root]
    ELSE LET c == Head(comps)
         IN IF c \in {"", "."} THEN Walk(disk, cur, Tail(comps))
            ELSE IF c = ".." THEN Walk(disk, Parent(cur), Tail(comps))
            ELSE IF (cur \o <<c>>) \in disk THEN Walk(disk, cur \o <<c>>, Tail(comps))
            ELSE [ok |-> FALSE, node |-> Root]

\* The working directory relative paths are resolved from.
Cwd == Root

Resolve(disk, p) ==
    IF p = <<"">> THEN [ok |-> FALSE, node |-> Root]
    ELSE IF IsAbs(p) THEN Walk(disk, Root, Tail(p))
    ELSE Walk(disk, Cwd, p)

\* os.path.exists
exists(disk, p) == Resolve(disk, p).ok

(***************************************************************************)
(* content/api/utils.py : manifest resolver                                *)
(***************************************************************************)
\* Mutant: the 1080p entry of the map reads the 720p field.
get_hls_manifest_by_resolution_swapped(v, resolution) ==
    IF resolution = "480p" THEN v.hls_480p_manifest
    ELSE IF resolution \in {"720p", "1080p"} THEN v.hls_720p_manifest
    ELSE None

\* A resolution that is none of the three tiers reads no field.
get_hls_manifest_by_resolution(v, resolution) ==
    IF resolution = "480p" THEN v.hls_480p_manifest
    ELSE IF resolution = "720p" THEN v.hls_720p_manifest
    ELSE IF resolution = "1080p" THEN v.hls_1080p_manifest
    ELSE None

\* Mutant: the joined path is returned without the existence check.
get_hls_segment_path_unchecked(v, disk, resolution, segment_filename) ==
    LET manifest == get_hls_manifest_by_resolution(v, resolution)
    IN IF ~Truthy(manifest) THEN None
       ELSE Str(join(dirname(manifest.path), segment_filename))

\* Mutant: a tier without a manifest falls back to the 720p manifest.
get_hls_segment_path_fallback(v, disk, resolution, segment_filename) ==
    LET found == get_hls_manifest_by_resolution(v, resolution)
        manifest == IF Truthy(found) THEN found ELSE v.hls_720p_manifest
    IN IF ~Truthy(manifest) THEN None
       ELSE LET manifest_dir == dirname(manifest.path)
                segment_path == join(manifest_dir, segment_filename)
            IN IF exists(disk, segment_path) THEN Str(segment_path) ELSE None

get_hls_segment_path(v, disk, resolution, segment_filename) ==
    LET manifest == get_hls_manifest_by_resolution(v, resolution)
    IN IF ~Truthy(manifest) THEN None
       ELSE LET manifest_dir == dirname(manifest.path)
                segment_path == join(manifest_dir, segment_filename)
            IN IF exists(disk, segment_path) THEN Str(segment_path) ELSE None

(***************************************************************************)
(* content/api/utils.py : encoder invocation                               *)
(***************************************************************************)
\* subprocess.run(command, check=...): the command is started once and
\* awaited; with check set a non-zero return code raises CalledProcessError.
subprocess_run(returncode, check) ==
    [spawned |-> 1,
     exc |-> IF check /\ returncode # 0 THEN "CalledProcessError" ELSE ""]

\* What the external encoder leaves on disk: each target it wrote appears,
\* provided the directory it is written into exists.
ffmpeg(disk, wrote) ==
    disk \cup { Tail(p) : p \in { q \in wrote : IsDirIn(disk, Parent(Tail(q))) } }

\* Mutant: a failed run is tried a second time before the error is raised.
convert_video_retry(input_path, output_path, resolution, returncode) ==
    LET run == subprocess_run(returncode, TRUE)
    IN [ret |-> None, exc |-> run.exc,
        runs |-> IF run.exc # "" THEN run.spawned + 1 ELSE run.spawned]

\* The function returns None, or ends with the exception exc.
convert_video(input_path, output_path, resolution, returncode) ==
    LET run == subprocess_run(returncode, TRUE)
    IN [ret |-> None, exc |-> run.exc, runs |-> run.spawned]

playlist_path(output_dir) == join(output_dir, <<"index.m3u8">>)

\* The "%03d.ts" pattern, at the segment number the disk of the model holds.
hls_segment_filename(output_dir) == join(output_dir, <<"003.ts">>)

\* Mutant: the encoder is run without check=True.
convert_video_to_hls_unchecked(input_path, output_dir, resolution, returncode) ==
    LET run == subprocess_run(returncode, FALSE)
    IN [ret |-> IF run.exc = "" THEN Str(playlist_path(output_dir)) ELSE None,
        exc |-> run.exc, runs |-> run.spawned]

convert_video_to_hls(input_path, output_dir, resolution, returncode) ==
    LET run == subprocess_run(returncode, TRUE)
    IN [ret |-> IF run.exc = "" THEN Str(playlist_path(output_dir)) ELSE None,
        exc |-> run.exc, runs |-> run.spawned]

\* Mutant: the output file is not looked for after the run.
generate_thumbnail_unchecked(disk, input_path, output_path, returncode) ==
    LET run == subprocess_run(returncode, TRUE)
    IN [ret |-> None, exc |-> run.exc, runs |-> run.spawned]

\* disk is the disk as the encoder left it, examined after the run.
generate_thumbnail(disk, input_path, output_path, returncode) ==
    LET run == subprocess_run(returncode, TRUE)
    IN [ret |-> None,
        exc |-> IF run.exc # "" THEN run.exc
                ELSE IF ~exists(disk, output_path) THEN "Exception"
                ELSE "",
        runs |-> run.spawned]

(***************************************************************************)
(* content/api/serializers.py                                              *)
(***************************************************************************)
\* What reading obj.thumbnail.url does for a field with a file name. The URL
\* is built from the name and MEDIA_URL alone, the file is not opened, so a
\* storage backend answers "url" whether or not the file is there; a backend
\* may also raise one of the three exceptions the serializer handles.
UrlOutcomes == {"url", "ValueError", "OSError", "AttributeError"}

storage_url(name) == MEDIA_URL \o name

\* request.build_absolute_uri: scheme and host in front of the URL path.
build_absolute_uri(url) == <<"http:", "", "testserver">> \o Tail(url)

\* request is TRUE when the serializer context holds a request.
\* hasattr() turns an AttributeError of the property into False, and the
\* method then falls through to the final return; other exceptions leave
\* hasattr() and reach the except clause.
get_thumbnail_url(obj, request, outcome) ==
    IF Truthy(obj.thumbnail)
    THEN IF outcome \in {"ValueError", "OSError"} THEN [ret |-> None, exc |-> ""]
         ELSE IF outcome = "AttributeError" THEN [ret |-> None, exc |-> ""]
         ELSE LET thumbnail_url == storage_url(obj.thumbnail.name)
              IN IF request THEN [ret |-> Str(build_absolute_uri(thumbnail_url)), exc |-> ""]
                 ELSE [ret |-> Str(thumbnail_url), exc |-> ""]
    ELSE [ret |-> None, exc |-> ""]

\* Characters are one-character strings; "U+00E9" stands for e with acute.
Upper == <<"A", "B", "C", "D", "E", "F", "G", "H", "I", "J", "K", "L", "M",
           "N", "O", "P", "Q", "R", "S", "T", "U", "V", "W", "X", "Y", "Z">>

Lower == <<"a", "b", "c", "d", "e", "f", "g", "h", "i", "j", "k", "l", "m",
           "n", "o", "p", "q", "r", "s", "t", "u", "v", "w", "x", "y", "z">>

Digits == {"0", "1", "2", "3", "4", "5", "6", "7", "8", "9"}

Range(f) == { f[i] : i \in DOMAIN f }

\* unicodedata.normalize("NFKD", c).encode("ascii", "ignore"): an accented
\* letter decomposes into the letter and a combining mark, which is dropped.
ascii_fold(c) == IF c = "U+00E9" THEN <<"e">> ELSE <<c>>

\* str.lower on one character.
lower(c) ==
    IF c \in Range(Upper) THEN Lower[CHOOSE i \in DOMAIN Upper : Upper[i] = c] ELSE c

\* The regular expression classes \w and \s over ASCII.
IsWord(c) == c \in Range(Upper) \cup Range(Lower) \cup Digits \cup {"_"}

IsSpace(c) == c \in {" ", "\t"}

RECURSIVE ascii_encode(_)
\* The fold applied to every character of the string.
ascii_encode(value) ==
    IF value = <<>> THEN <<>> ELSE ascii_fold(Head(value)) \o ascii_encode(Tail(value))

\* re.sub(r"[^\w\s-]", "", value)
remove_other(value) ==
    SelectSeq(value, LAMBDA c : IsWord(c) \/ IsSpace(c) \/ c = "-")

IsSep(c) == c = "-" \/ IsSpace(c)

RECURSIVE collapse(_)
\* re.sub(r"[-\s]+", "-", value): every run of hyphens and spaces becomes "-".
collapse(value) ==
    IF value = <<>> THEN <<>>
    ELSE IF IsSep(Head(value))
         THEN IF Len(value) >= 2 /\ IsSep(value[2]) THEN collapse(Tail(value))
              ELSE <<"-">> \o collapse(Tail(value))
         ELSE <<Head(value)>> \o collapse(Tail(value))

RECURSIVE lstrip(_, _)
lstrip(value, chars) ==
    IF value # <<>> /\ Head(value) \in chars THEN lstrip(Tail(value), chars) ELSE value

RECURSIVE rstrip(_, _)
rstrip(value, chars) ==
    IF value # <<>> /\ Last(value) \in chars THEN rstrip(Front(value), chars) ELSE value

\* str.strip(chars)
strip(value, chars) == rstrip(lstrip(value, chars), chars)

\* Mutant: hyphens and underscores are stripped before the runs are collapsed.
slugify_strip_first(value) ==
    LET folded == ascii_encode(value)
        lowered == [i \in DOMAIN folded |-> lower(folded[i])]
    IN collapse(strip(remove_other(lowered), {"-", "_"}))

\* django.utils.text.slugify(value) with allow_unicode=False.
slugify(value) ==
    LET folded == ascii_encode(value)
        lowered == [i \in DOMAIN folded |-> lower(folded[i])]
    IN strip(collapse(remove_other(lowered)), {"-", "_"})

get_slug(obj) == Str(slugify(obj.title))

(***************************************************************************)
(* Inputs                                                                  *)
(***************************************************************************)
Tiers == {"480p", "720p", "1080p"}

Resolutions == Tiers \cup {"360p"}

ManifestName(tier) == <<"v1", tier, "index.m3u8">>

SegmentFilenames ==
    { <<"003.ts">>, <<"004.ts">>, <<".">>,
      <<"..", "secret.ts">>, <<"", "media", "v1", "secret.ts">> }

InputPaths == { <<"", "media", "v1", "upload.mp4">> }

VideoOutputPaths == { <<"", "media", "v1", "out.mp4">> }

HlsOutputDirs == { <<"", "media", "v1", "720p">> }

ThumbnailOutputPaths == { <<"", "media", "thumb.jpg">> }

Heights == {480, 720}

ReturnCodes == {0, 1}

ExampleTitle ==
    <<"M", "y", " ", "G", "r", "e", "a", "t", " ", "V", "i", "d", "e", "o", "!">>

ExampleSlug ==
    <<"m", "y", "-", "g", "r", "e", "a", "t", "-", "v", "i", "d", "e", "o">>

TitleChars == {"A", "b", "1", " ", "!", "-", "_", "U+00E9"}

MaxTitleLen == 3

SeqsUpTo(S, n) == UNION { [1..k -> S] : k \in 0..n }

Titles == SeqsUpTo(TitleChars, MaxTitleLen) \cup {ExampleTitle}

(***************************************************************************)
(* State                                                                   *)
(***************************************************************************)
\* The record of the last call or filesystem event: what was called, with
\* which arguments, what the encoder answered, and how the call ended
\* (ret is the value returned, exc the exception that left the call, ""
\* for none; runs counts the encoder processes the call started).
Call(op) ==
    [op |-> op, resolution |-> "", segment_filename |-> <<>>,
     input_path |-> <<>>, output_path |-> <<>>, height |-> 0,
     returncode |-> 0, request |-> FALSE, outcome |-> "",
     ret |-> None, exc |-> "", runs |-> 0]

Videos ==
    [hls_480p_manifest : {FieldFile(<<>>), FieldFile(ManifestName("480p"))},
     hls_720p_manifest : {FieldFile(<<>>), FieldFile(ManifestName("720p"))},
     hls_1080p_manifest : {FieldFile(<<>>), FieldFile(ManifestName("1080p"))},
     thumbnail : {FieldFile(<<>>), FieldFile(<<"thumb.jpg">>)},
     title : {ExampleTitle}]

\* Every file and directory of the disk is there at the start, so a file
\* that is missing later has been deleted.
Init ==
    /\ video \in Videos
    /\ fs = Nodes
    /\ last = Call("start")

(***************************************************************************)
(* Filesystem events outside the program                                   *)
(***************************************************************************)
Create ==
    \E n \in Nodes \ fs :
        /\ IsDirIn(fs, Parent(n))
        /\ fs' = fs \cup {n}
        /\ last' = Call("create")
        /\ UNCHANGED video

Delete ==
    \E n \in fs :
        /\ \A m \in fs : Parent(m) # n
        /\ fs' = fs \ {n}
        /\ last' = Call("delete")
        /\ UNCHANGED video

(***************************************************************************)
(* Calls                                                                   *)
(***************************************************************************)
GetHlsManifestByResolution ==
    \E resolution \in Resolutions :
        /\ last' = [Call("get_hls_manifest_by_resolution") EXCEPT
                       !.resolution = resolution,
                       !.ret = get_hls_manifest_by_resolution(video, resolution)]
        /\ UNCHANGED <<video, fs>>

GetHlsSegmentPath ==
    \E resolution \in Resolutions, segment_filename \in SegmentFilenames :
        /\ last' = [Call("get_hls_segment_path") EXCEPT
                       !.resolution = resolution,
                       !.segment_filename = segment_filename,
                       !.ret = get_hls_segment_path(video, fs, resolution, segment_filename)]
        /\ UNCHANGED <<video, fs>>

ConvertVideo ==
    \E input_path \in InputPaths, output_path \in VideoOutputPaths,
       resolution \in Heights, returncode \in ReturnCodes,
       wrote \in SUBSET VideoOutputPaths :
        LET r == convert_video(input_path, output_path, resolution, returncode)
        IN /\ wrote \subseteq {output_path}
           /\ fs' = ffmpeg(fs, wrote)
           /\ last' = [Call("convert_video") EXCEPT
                          !.input_path = input_path, !.output_path = output_path,
                          !.height = resolution, !.returncode = returncode,
                          !.ret = r.ret, !.exc = r.exc, !.runs = r.runs]
           /\ UNCHANGED video

\* Mutant: a successful encode stores the playlist in the record.
ConvertVideoToHls_stores_manifest ==
    \E input_path \in InputPaths, output_dir \in HlsOutputDirs,
       resolution \in Heights, returncode \in ReturnCodes :
        \E wrote \in SUBSET {playlist_path(output_dir), hls_segment_filename(output_dir)} :
            LET r == convert_video_to_hls(input_path, output_dir, resolution, returncode)
            IN /\ fs' = ffmpeg(fs, wrote)
               /\ last' = [Call("convert_video_to_hls") EXCEPT
                              !.input_path = input_path, !.output_path = output_dir,
                              !.height = resolution, !.returncode = returncode,
                              !.ret = r.ret, !.exc = r.exc, !.runs = r.runs]
               /\ video' = IF r.exc = ""
                           THEN [video EXCEPT !.hls_720p_manifest = FieldFile(ManifestName("720p"))]
                           ELSE video

ConvertVideoToHls ==
    \E input_path \in InputPaths, output_dir \in HlsOutputDirs,
       resolution \in Heights, returncode \in ReturnCodes :
        \E wrote \in SUBSET {playlist_path(output_dir), hls_segment_filename(output_dir)} :
            LET r == convert_video_to_hls(input_path, output_dir, resolution, returncode)
            IN /\ fs' = ffmpeg(fs, wrote)
               /\ last' = [Call("convert_video_to_hls") EXCEPT
                              !.input_path = input_path, !.output_path = output_dir,
                              !.height = resolution, !.returncode = returncode,
                              !.ret = r.ret, !.exc = r.exc, !.runs = r.runs]
               /\ UNCHANGED video

GenerateThumbnail ==
    \E input_path \in InputPaths, output_path \in ThumbnailOutputPaths,
       returncode \in ReturnCodes, wrote \in SUBSET ThumbnailOutputPaths :
        LET disk == ffmpeg(fs, wrote)
            r == generate_thumbnail(disk, input_path, output_path, returncode)
        IN /\ wrote \subseteq {output_path}
           /\ fs' = disk
           /\ last' = [Call("generate_thumbnail") EXCEPT
                          !.input_path = input_path, !.output_path = output_path,
                          !.returncode = returncode,
                          !.ret = r.ret, !.exc = r.exc, !.runs = r.runs]
           /\ UNCHANGED video

GetThumbnailUrl ==
    \E request \in BOOLEAN, outcome \in UrlOutcomes :
        LET r == get_thumbnail_url(video, request, outcome)
        IN /\ last' = [Call("get_thumbnail_url") EXCEPT
                          !.request = request,
                          !.outcome = IF Truthy(video.thumbnail) THEN outcome ELSE "",
                          !.ret = r.ret, !.exc = r.exc]
           /\ UNCHANGED <<video, fs>>

GetSlug ==
    /\ last' = [Call("get_slug") EXCEPT !.ret = get_slug(video)]
    /\ UNCHANGED <<video, fs>>

Next ==
    \/ Create
    \/ Delete
    \/ GetHlsManifestByResolution
    \/ GetHlsSegmentPath
    \/ ConvertVideo
    \/ ConvertVideoToHls
    \/ GenerateThumbnail
    \/ GetThumbnailUrl

Spec == Init /\ [][Next]_vars

\* The slug of every title up to MaxTitleLen characters.
InitSlug ==
    /\ video \in [hls_480p_manifest : {FieldFile(<<>>)},
                  hls_720p_manifest : {FieldFile(<<>>)},
                  hls_1080p_manifest : {FieldFile(<<>>)},
                  thumbnail : {FieldFile(<<>>)},
                  title : Titles]
    /\ fs = Nodes
    /\ last = Call("start")

NextSlug == GetSlug

SpecSlug == InitSlug /\ [][NextSlug]_vars

(***************************************************************************)
(* Properties                                                              *)
(***************************************************************************)
Segment003 == <<"media", "v1", "720p", "003.ts">>

Only720p ==
    /\ ~Truthy(video.hls_480p_manifest)
    /\ video.hls_720p_manifest = FieldFile(ManifestName("720p"))
    /\ ~Truthy(video.hls_1080p_manifest)

IsPrefix(s, t) == Len(s) <= Len(t) /\ SubSeq(t, 1, Len(s)) = s

\* C1: get_hls_segment_path returns a path only if that exact path exists on
\* disk at the time of the call, and when the joined path does not exist
\* (for instance because the segment was deleted after the manifest was
\* set) the call returns None.
C1_SegmentOnlyIfExists ==
    last.op = "get_hls_segment_path" =>
        LET m == get_hls_manifest_by_resolution(video, last.resolution)
        IN /\ last.ret # None => exists(fs, last.ret.str)
           /\ (Truthy(m) /\ ~exists(fs, join(dirname(m.path), last.segment_filename)))
                  => last.ret = None

\* A call for the 720p segment made after that segment was deleted.
C1_Witness ==
    /\ last.op = "get_hls_segment_path"
    /\ last.resolution = "720p"
    /\ last.segment_filename = <<"003.ts">>
    /\ Truthy(video.hls_720p_manifest)
    /\ Segment003 \notin fs
    /\ last.ret = None

\* C2: get_hls_manifest_by_resolution returns the record's field of the tier
\* asked for, set or not, and None for a string that is no tier.
C2_ManifestByTier ==
    last.op = "get_hls_manifest_by_resolution" =>
        /\ last.resolution = "480p" => last.ret = video.hls_480p_manifest
        /\ last.resolution = "720p" => last.ret = video.hls_720p_manifest
        /\ last.resolution = "1080p" => last.ret = video.hls_1080p_manifest
        /\ last.resolution \notin {"480p", "720p", "1080p"} => last.ret = None

\* The 1080p field is asked for on a record that has only the 720p manifest.
C2_Witness ==
    /\ last.op = "get_hls_manifest_by_resolution"
    /\ last.resolution = "1080p"
    /\ Only720p
    /\ last.ret = FieldFile(<<>>)

\* C3: whenever get_hls_manifest_by_resolution gives nothing (unknown tier or
\* field not set) get_hls_segment_path returns None whatever is on disk; with
\* only the 720p manifest set and /media/v1/720p/003.ts present, 003.ts is
\* not found at 1080p and is found at 720p.
C3_NoManifestNoSegment ==
    last.op = "get_hls_segment_path" =>
        /\ ~Truthy(get_hls_manifest_by_resolution(video, last.resolution))
               => last.ret = None
        /\ (Only720p /\ Segment003 \in fs /\ last.segment_filename = <<"003.ts">>) =>
               /\ last.resolution = "1080p" => last.ret = None
               /\ last.resolution = "720p"
                      => last.ret = Str(<<"", "media", "v1", "720p", "003.ts">>)

\* The segment is on disk and asked for at 1080p, where no manifest is set.
C3_Witness ==
    /\ last.op = "get_hls_segment_path"
    /\ last.resolution = "1080p"
    /\ last.segment_filename = <<"003.ts">>
    /\ Only720p
    /\ Segment003 \in fs
    /\ last.ret = None

\* C4: a path returned by get_hls_segment_path lies inside the directory of
\* the resolved manifest.
C4_SegmentInsideManifestDir ==
    (last.op = "get_hls_segment_path" /\ last.ret # None) =>
        LET m == get_hls_manifest_by_resolution(video, last.resolution)
        IN IsPrefix(Resolve(fs, dirname(m.path)).node, Resolve(fs, last.ret.str).node)

\* C5: convert_video and convert_video_to_hls end with an error when the
\* encoder exits non-zero, and convert_video_to_hls returns no playlist path.
C5_EncoderFailureRaises ==
    (last.op \in {"convert_video", "convert_video_to_hls"} /\ last.returncode # 0) =>
        /\ last.exc # ""
        /\ last.ret = None

\* A segmenting run that failed after leaving a playlist on disk.
C5_Witness ==
    /\ last.op = "convert_video_to_hls"
    /\ last.returncode # 0
    /\ exists(fs, playlist_path(last.output_path))
    /\ last.exc = "CalledProcessError"

\* C6: generate_thumbnail returns normally exactly when the encoder exited 0
\* and the output file exists afterwards; exit 0 without the file is an error.
C6_ThumbnailPostcondition ==
    last.op = "generate_thumbnail" =>
        (last.exc = "" <=> (last.returncode = 0 /\ exists(fs, last.output_path)))

\* The encoder reported success and there is no output file.
C6_Witness ==
    /\ last.op = "generate_thumbnail"
    /\ last.returncode = 0
    /\ ~exists(fs, last.output_path)
    /\ last.exc = "Exception"

\* C7: get_thumbnail_url yields None, and no exception, for a record without
\* a thumbnail and for a record whose thumbnail file is missing from storage.
C7_MissingThumbnailYieldsNone ==
    (/\ last.op = "get_thumbnail_url"
     /\ (~Truthy(video.thumbnail) \/ ~exists(fs, video.thumbnail.path)))
        => (last.ret = None /\ last.exc = "")

\* C8: each encoder operation starts the encoder exactly once per call, and
\* a failed run is reported by that call.
C8_OneEncoderRun ==
    last.op \in {"convert_video", "convert_video_to_hls", "generate_thumbnail"} =>
        /\ last.runs = 1
        /\ last.returncode # 0 => last.exc # ""

\* A failed conversion: one run, and the error.
C8_Witness ==
    /\ last.op = "convert_video"
    /\ last.returncode # 0
    /\ last.runs = 1
    /\ last.exc = "CalledProcessError"

SlugChars == Range(Lower) \cup Digits \cup {"-", "_"}

\* C9: the slug of a slug is that slug; a slug has lowercase letters, digits,
\* hyphens and underscores only; 'My Great Video!' gives 'my-great-video'.
C9_SlugIdempotent ==
    last.op = "get_slug" =>
        LET s == last.ret.str
        IN /\ slugify(s) = s
           /\ \A i \in DOMAIN s : s[i] \in SlugChars
           /\ video.title = ExampleTitle => s = ExampleSlug

\* A title with an uppercase letter, a space and punctuation has been slugged.
C9_Witness ==
    /\ last.op = "get_slug"
    /\ video.title = <<"A", " ", "!">>
    /\ last.ret = Str(<<"a">>)

CoreOps ==
    {"get_hls_manifest_by_resolution", "get_hls_segment_path",
     "convert_video", "convert_video_to_hls", "generate_thumbnail"}

\* C10: no call of the resolver or of the encoder operations changes the
\* record, however it ends, and the two resolver calls leave the disk as is.
C10_RecordAndDiskUnchanged ==
    [][/\ last'.op \in CoreOps => video' = video
       /\ last'.op \in {"get_hls_manifest_by_resolution", "get_hls_segment_path"}
              => fs' = fs]_vars

\* A successful segmenting run whose playlist is on disk while the record
\* still has no 720p manifest.
C10_Witness ==
    /\ last.op = "convert_video_to_hls"
    /\ last.exc = ""
    /\ exists(fs, last.ret.str)
    /\ ~Truthy(video.hls_720p_manifest)

====
